---- MODULE Spec2Model ----
(***************************************************************************)
(* GeoFull: the address record store (app/models.py, app/crud.py), the     *)
(* HTTP handlers that create, update, delete and upload addresses          *)
(* (app/main.py) and the enrichment pipeline run as a background task      *)
(* (app/processing.py).                                                    *)
(*                                                                         *)
(* Handlers run concurrently (thread pool, background tasks), so a handler *)
(* is split at its database statements: a step is one statement or commit  *)
(* against the store, together with the local computation and the external *)
(* call that precede it (nothing another handler does in between is        *)
(* visible to them).                                                       *)
(***************************************************************************)
EXTENDS Integers, Sequences, FiniteSets, TLC

\* ---------------------------------------------------------------- bounds
\* Number of address ids (uuid4 values) the model allocates.
MaxAddr == 2
\* Longest address column of an uploaded file.
MaxRows == 2
\* Number of times the pipeline entry point is invoked again for an id that
\* already had a run (in SpecRuns and SpecLive).
MaxRerun == 1
\* Number of PUT /addresses/{id} requests.
MaxPuts == 1

\* ------------------------------------------------------------ value sets
\* Python None / SQL NULL.
None == "None"

PENDING == "pending"
NORMALIZED == "normalized"
VERIFIED == "verified"
AddressStatus == {PENDING, NORMALIZED, VERIFIED}

\* Columns of the addresses table (id is the key of store; created_at and
\* updated_at are timestamps the handlers never read).
Fields ==
  {"original_address", "normalized_address", "suggested_address",
   "street_info", "neighborhood", "apartment_info", "notes",
   "latitude", "longitude", "postal_code", "status"}

Ids == 1..MaxAddr

\* Raw address texts sent by clients.
RawTexts == {"Cra 1 # 2-3", "Cl 4 # 5-6"}

\* A cell of the address column that is not a string (a number): the
\* lookup / schema validation raises on it.
BadCell == "<non-string cell>"

\* Faulty variant of NewAddress: the status column defaults to NORMALIZED.
NewAddressNormalized(t) ==
  [f \in Fields |->
     IF f = "original_address" THEN t
     ELSE IF f = "status" THEN NORMALIZED
     ELSE None]

\* A row as Address(original_address=t) inserts it: every nullable column
\* NULL, status at its default.
NewAddress(t) ==
  [f \in Fields |->
     IF f = "original_address" THEN t
     ELSE IF f = "status" THEN PENDING
     ELSE None]

\* The session holds no loaded instance.
NoObj == [f \in Fields |-> None]

\* ------------------------------------------------- external service values
\* What parse_address_with_ai returns: None (call failed, response not
\* JSON), a falsy JSON value ({} [] 0 ""), a truthy value that is not a dict
\* of strings, or a dict with the four keys (each a string or null).
\* (.get of a missing key is None, so the values without keys carry None.)
Parsed(kind, s, n, a, o) ==
  [kind |-> kind, street_info |-> s, neighborhood |-> n,
   apartment_info |-> a, notes |-> o]
ParsedNone == Parsed("none", None, None, None, None)
ParsedFalsy == Parsed("falsy", None, None, None, None)
ParsedBad == Parsed("bad", None, None, None, None)
ParsedUnset == Parsed("unset", None, None, None, None)
ParsedDict(s, n, a, o) == Parsed("dict", s, n, a, o)
ParsedDicts ==
  { ParsedDict(None, None, None, None),
    ParsedDict("Carrera 1 # 2-3", None, "Apto 2", None),
    ParsedDict(None, "Centro", None, "azul"),
    ParsedDict("Carrera 1 # 2-3", "Centro", "Apto 2", "azul"),
    ParsedDict("", "Centro", None, None) }
ParseResults == {ParsedNone, ParsedFalsy, ParsedBad} \cup ParsedDicts

\* What the geocoding service answers: a transport error / timeout / bad
\* status, an empty match array, a first match, or a match without "lat".
GeoMatches ==
  { [lat |-> "6.25", lon |-> "-75.56",
     display_name |-> "Carrera 1, Medellin", postcode |-> "050021"] }
GeoResponses ==
  {[kind |-> "error"], [kind |-> "empty"], [kind |-> "malformed"]}
    \cup {[kind |-> "match", result |-> m] : m \in GeoMatches}

GeoNone(why) == [kind |-> "none", why |-> why]

\* ---------------------------------------------------------------- state
VARIABLES
  store,    \* the addresses table: id -> row, for the ids that have a row
  nextId,   \* the next fresh id
  checked,  \* per raw text: create requests past the duplicate check
  upload,   \* the upload request in progress
  runs,     \* per id: the background pipeline tasks queued for it
  reruns,   \* how many runs were started for an id that already had one
  puts,     \* how many PUT /addresses/{id} requests were made
  edited    \* ids that received a successful PUT /addresses/{id}

vars == <<store, nextId, checked, upload, runs, reruns, puts, edited>>

RECURSIVE SumOver(_, _)
SumOver(f, S) ==
  IF S = {} THEN 0
  ELSE LET x == CHOOSE y \in S : TRUE IN f[x] + SumOver(f, S \ {x})

\* Creations in progress: each will take a fresh id.
Reserved == SumOver(checked, RawTexts) + Len(upload.rows)
IdsLeft == MaxAddr - (nextId - 1) - Reserved

\* The upload request: none, in its row loop, or answered.  `keep` says
\* whether the client holds on to the response; if so, `file` is what was
\* uploaded and `code` the status code of the response until the client
\* lets go of it.
UploadIdle ==
  [pc |-> "idle", rows |-> <<>>, tasks |-> <<>>, keep |-> FALSE,
   file |-> "none", code |-> 0]

\* A queued background task run_processing_pipeline(address_id).
NewRun(id) ==
  [aid |-> id, pc |-> "start", obj |-> NoObj, parsed |-> ParsedUnset,
   q |-> None, loaded |-> "unset", ans |-> "unset",
   extCalls |-> 0, geoCalls |-> 0, writes |-> 0, end |-> "running"]

\* background_tasks.add_task for each id of `ids`, run after the response.
Queue(rs, ids) ==
  [id \in Ids |-> IF id \in ids THEN Append(rs[id], NewRun(id)) ELSE rs[id]]

Init ==
  /\ store = <<>>
  /\ nextId = 1
  /\ checked = [t \in RawTexts |-> 0]
  /\ upload = UploadIdle
  /\ runs = [id \in Ids |-> <<>>]
  /\ reruns = 0
  /\ puts = 0
  /\ edited = {}

\* ------------------------------------------------------------- crud.py
\* The table has a row with this id.
HasRow(id) == id \in DOMAIN store

\* get_address: the row with this id, or None.
GetAddress(id) == IF HasRow(id) THEN store[id] ELSE NoObj

\* Faulty variant of NotFound: the run goes on without a row.
NotFoundNever(obj) == FALSE

\* `if not db_address`.
NotFound(obj) == obj = NoObj

\* get_address_by_original_address(...).first() is not None.
ExistsOriginal(t) == \E id \in DOMAIN store : store[id].original_address = t

\* create_address: a new row with a fresh uuid, committed.
InsertRow(id, t) == store @@ (id :> NewAddress(t))

\* Faulty variant of UpdateRow: the row is replaced by the payload, the
\* columns it does not set becoming NULL.
UpdateRowReplaces(row, obj, payload) ==
  [f \in Fields |-> IF f \in DOMAIN payload THEN payload[f] ELSE None]

\* update_address on a session whose instance of the row holds the values
\* `obj`: setattr for every field the payload sets, then flush + commit.  The
\* UPDATE carries the columns whose new value differs from the value the
\* instance was loaded with; the other columns of the row are not written.
UpdateRow(row, obj, payload) ==
  [f \in Fields |->
     IF f \in DOMAIN payload /\ payload[f] # obj[f] THEN payload[f]
     ELSE row[f]]

\* delete_address.
DeleteRow(id) == [i \in DOMAIN store \ {id} |-> store[i]]

\* ------------------------------------------------------------- main.py
\* POST /addresses/, first statement: the duplicate lookup.  A duplicate is
\* answered 400 and nothing else happens; otherwise the request goes on to
\* create the row.
CreateCheck(t) ==
  IF ExistsOriginal(t)
  THEN UNCHANGED vars
  ELSE /\ IdsLeft > 0
       /\ checked' = [checked EXCEPT ![t] = @ + 1]
       /\ UNCHANGED <<store, nextId, upload, runs, reruns, puts, edited>>

\* POST /addresses/, after the lookup found nothing: create_address, queue
\* the pipeline for the new id, answer with the new row.
CreateInsert(t) ==
  /\ checked[t] > 0
  /\ checked' = [checked EXCEPT ![t] = @ - 1]
  /\ store' = InsertRow(nextId, t)
  /\ nextId' = nextId + 1
  /\ runs' = Queue(runs, {nextId})
  /\ UNCHANGED <<upload, reruns, puts, edited>>

\* Request bodies of PUT /addresses/{id}: the fields the client sets.
UpdatePayloads ==
  {[status |-> VERIFIED], [status |-> PENDING],
   [original_address |-> "Cl 4 # 5-6"],
   [latitude |-> "6.25"], [normalized_address |-> ""]}

\* PUT /addresses/{id}: crud.update_address on the request's own session,
\* which loads the row it updates; 404 when there is none.
UpdateEndpoint(id, payload) ==
  /\ puts < MaxPuts
  /\ puts' = puts + 1
  /\ IF HasRow(id)
     THEN /\ store' = [store EXCEPT ![id] = UpdateRow(@, @, payload)]
          /\ edited' = edited \cup {id}
     ELSE UNCHANGED <<store, edited>>
  /\ UNCHANGED <<nextId, checked, upload, runs, reruns>>

\* DELETE /addresses/{id}; 404 when there is no row.
DeleteEndpoint(id) ==
  /\ store' = IF HasRow(id) THEN DeleteRow(id) ELSE store
  /\ UNCHANGED <<nextId, checked, upload, runs, reruns, puts, edited>>

\* Uploaded files: whether the name ends in .xlsx / .csv, whether one of
\* the four address columns is there, and that column without its NaN.
UploadFiles ==
  { [name_ok |-> FALSE, column |-> TRUE, rows |-> <<>>],
    [name_ok |-> TRUE, column |-> FALSE, rows |-> <<>>] }
  \cup
  { [name_ok |-> TRUE, column |-> TRUE, rows |-> rs] :
      rs \in UNION {[1..k -> RawTexts \cup {BadCell}] : k \in 0..MaxRows} }

\* The response of the upload leaves the handler.
UploadAnswered(file, code) ==
  IF upload.keep
  THEN [upload EXCEPT !.pc = "answered", !.rows = <<>>, !.tasks = <<>>,
                      !.file = file, !.code = code]
  ELSE [upload EXCEPT !.pc = "idle", !.rows = <<>>, !.tasks = <<>>]

\* The loop goes on with the rows left; after the last one the handler
\* returns 200 and the tasks it added are queued.
UploadAdvance(rest, tasks) ==
  IF rest = <<>>
  THEN /\ upload' = UploadAnswered("rows", 200)
       /\ runs' = Queue(runs, {tasks[i] : i \in 1..Len(tasks)})
  ELSE /\ upload' = [upload EXCEPT !.pc = "check", !.rows = rest,
                                   !.tasks = tasks]
       /\ UNCHANGED runs

\* The status code of an upload answered before the row loop (0: the loop
\* is entered).  The 400 for a missing column is raised inside the try
\* block and leaves it as the 500 of its except clause.
UploadRejected(file) ==
  IF ~file.name_ok THEN 400
  ELSE IF ~file.column THEN 500
  ELSE 0

\* What an uploaded file is: one with an unsupported name, one without an
\* address column, or one with rows to go through.
FileKind(file) ==
  IF ~file.name_ok THEN "bad_name"
  ELSE IF ~file.column THEN "no_column"
  ELSE "rows"

\* POST /upload, up to the row loop: the file name, the parse, the address
\* column.
UploadStart(file) ==
  /\ upload.pc = "idle"
  /\ IF UploadRejected(file) # 0
     THEN /\ upload' = UploadAnswered(FileKind(file), UploadRejected(file))
          /\ UNCHANGED runs
     ELSE /\ Len(file.rows) <= IdsLeft
          /\ UploadAdvance(file.rows, <<>>)
  /\ UNCHANGED <<store, nextId, checked, reruns, puts, edited>>

\* One row of the loop, the duplicate lookup: a cell that is no string
\* raises (500, the tasks added so far are dropped with the response), a
\* duplicate is skipped, a new text goes on to create_address.
UploadRowCheck ==
  /\ upload.pc = "check"
  /\ IF Head(upload.rows) = BadCell
     THEN /\ upload' = UploadAnswered("rows", 500)
          /\ UNCHANGED runs
     ELSE IF ExistsOriginal(Head(upload.rows))
     THEN UploadAdvance(Tail(upload.rows), upload.tasks)
     ELSE /\ upload' = [upload EXCEPT !.pc = "create"]
          /\ UNCHANGED runs
  /\ UNCHANGED <<store, nextId, checked, reruns, puts, edited>>

\* One row of the loop, create_address and add_task.
UploadRowCreate ==
  /\ upload.pc = "create"
  /\ store' = InsertRow(nextId, Head(upload.rows))
  /\ nextId' = nextId + 1
  /\ UploadAdvance(Tail(upload.rows), Append(upload.tasks, nextId))
  /\ UNCHANGED <<checked, reruns, puts, edited>>

\* The client lets go of the response of its upload.
UploadClose ==
  /\ upload.pc = "answered"
  /\ upload' = [upload EXCEPT !.pc = "idle", !.file = "none", !.code = 0]
  /\ UNCHANGED <<store, nextId, checked, runs, reruns, puts, edited>>

\* -------------------------------------------------------- processing.py
\* Python truthiness of a str-or-None value, as filter(None, ...) and
\* `if not address` test it.
Truthy(v) == v # None /\ v # ""

\* ", ".join(parts) for a sequence of strings.
RECURSIVE Join(_)
Join(parts) ==
  IF Len(parts) = 0 THEN ""
  ELSE IF Len(parts) = 1 THEN parts[1]
  ELSE parts[1] \o ", " \o Join(Tail(parts))

\* Faulty variant of NormalizedStr: norm_parts joined without the filter.
NormalizedStrUnfiltered(parsed) ==
  Join(<<parsed.street_info, parsed.neighborhood, "Medellin", "Colombia">>)

\* normalized_str: norm_parts filtered by truthiness, joined.
NormalizedStr(parsed) ==
  Join(SelectSeq(<<parsed.street_info, parsed.neighborhood,
                   "Medellin", "Colombia">>, Truthy))

\* Faulty variant of ExtractionUpdate: the extraction step marks the record
\* VERIFIED.
ExtractionUpdateSkips(parsed) ==
  [street_info |-> parsed.street_info,
   neighborhood |-> parsed.neighborhood,
   apartment_info |-> parsed.apartment_info,
   notes |-> parsed.notes,
   normalized_address |-> NormalizedStr(parsed),
   status |-> VERIFIED]

\* update_data, the AddressUpdate of the extraction step (exclude_unset
\* keeps exactly the fields passed to the constructor).
ExtractionUpdate(parsed) ==
  [street_info |-> parsed.street_info,
   neighborhood |-> parsed.neighborhood,
   apartment_info |-> parsed.apartment_info,
   notes |-> parsed.notes,
   normalized_address |-> NormalizedStr(parsed),
   status |-> NORMALIZED]

\* Faulty variant of GeoDict: the longitude of the match is not read.
GeoDictNoLongitude(result) ==
  [kind |-> "dict",
   latitude |-> result.lat,
   longitude |-> None,
   suggested_address |-> result.display_name,
   postal_code |-> result.postcode]

\* The dict geocode_address builds from the first match.
GeoDict(result) ==
  [kind |-> "dict",
   latitude |-> result.lat,
   longitude |-> result.lon,
   suggested_address |-> result.display_name,
   postal_code |-> result.postcode]

\* Faulty variant of GeoUpdate: the latitude is left out of the update.
GeoUpdateNoLatitude(geo) ==
  [longitude |-> geo.longitude,
   suggested_address |-> geo.suggested_address,
   postal_code |-> geo.postal_code,
   status |-> VERIFIED]

\* update_geo, the AddressUpdate of the geocoding step.
GeoUpdate(geo) ==
  [latitude |-> geo.latitude,
   longitude |-> geo.longitude,
   suggested_address |-> geo.suggested_address,
   postal_code |-> geo.postal_code,
   status |-> VERIFIED]

\* The run ends (return, or an exception leaving through finally): the
\* session is closed.
Finish(run, pc, why) ==
  [run EXCEPT !.pc = pc, !.end = why, !.obj = NoObj]

\* Faulty variant of UpdateAddress: the UPDATE has no WHERE clause.
UpdateAddressAllRows(st, id, obj, payload) ==
  IF id \in DOMAIN st
  THEN [i \in DOMAIN st |-> UpdateRow(st[i], obj, payload)]
  ELSE st

\* Faulty variant of UpdateAddress: the update is never committed.
UpdateAddressUncommitted(st, id, obj, payload) == st

\* Faulty variant of UpdateAddress: the session's instance is written back
\* whether or not its row is still there.
UpdateAddressUpserts(st, id, obj, payload) ==
  IF id \in DOMAIN st
  THEN [st EXCEPT ![id] = UpdateRow(@, obj, payload)]
  ELSE st @@ (id :> UpdateRow(obj, obj, payload))

\* crud.update_address as the pipeline calls it, on the run's session whose
\* instance holds `obj`: None (nothing written) when the row is gone, else
\* the UPDATE and commit.
UpdateAddress(st, id, obj, payload) ==
  IF id \in DOMAIN st
  THEN [st EXCEPT ![id] = UpdateRow(@, obj, payload)]
  ELSE st

\* The run after update_address: its instance refreshed from the row (line
\* 51 of crud.py), one more UPDATE issued if a column changed.
AfterUpdate(run, st, payload) ==
  IF run.aid \in DOMAIN st
  THEN [run EXCEPT
          !.writes = IF \E f \in DOMAIN payload : payload[f] # run.obj[f]
                     THEN @ + 1 ELSE @,
          !.obj = st[run.aid]]
  ELSE run

\* Faulty variant of Load: the run goes from the load straight to the
\* geocoding step.
LoadSkipsExtraction(id, k) ==
  /\ runs[id][k].pc = "start"
  /\ runs' = [runs EXCEPT ![id][k] =
       IF HasRow(id)
       THEN [@ EXCEPT !.pc = "geocode", !.obj = store[id], !.loaded = "row"]
       ELSE Finish([@ EXCEPT !.loaded = "none"], "done", "notfound")]
  /\ UNCHANGED <<store, nextId, checked, upload, reruns, puts, edited>>

\* Lines 138-143: open the session, load the row; no row, no run.
Load(id, k) ==
  LET obj == GetAddress(id)
      run == [runs[id][k] EXCEPT !.loaded = IF HasRow(id) THEN "row" ELSE "none"]
  IN
  /\ run.pc = "start"
  /\ runs' = [runs EXCEPT ![id][k] =
       IF NotFound(obj)
       THEN Finish(run, "done", "notfound")
       ELSE [run EXCEPT !.pc = "parse", !.obj = obj]]
  /\ UNCHANGED <<store, nextId, checked, upload, reruns, puts, edited>>

\* Faulty variant of AfterParse: a dict without any value is taken for a
\* failure.
AfterParseNeedsValue(parsed) ==
  IF parsed.kind \in {"none", "falsy"} THEN "halt"
  ELSE IF parsed.kind = "bad" THEN "raise"
  ELSE IF /\ parsed.street_info = None /\ parsed.neighborhood = None
          /\ parsed.apartment_info = None /\ parsed.notes = None
  THEN "halt"
  ELSE "persist"

\* Faulty variant of AfterParse: a falsy parsed_data is persisted too.
AfterParseNoCheck(parsed) ==
  IF parsed.kind = "bad" THEN "raise" ELSE "persist"

\* What the pipeline does with parsed_data (lines 148-171): "halt" on a
\* falsy value, "raise" on a truthy value that is no dict of strings (.get,
\* join or the schema raises before anything is written), else "persist".
AfterParse(parsed) ==
  IF parsed.kind \in {"none", "falsy"} THEN "halt"
  ELSE IF parsed.kind = "bad" THEN "raise"
  ELSE "persist"

\* Lines 146-171: parse_address_with_ai returns `res`; a falsy result ends
\* the run, a dict is persisted with status NORMALIZED.
Extract(id, k, res) ==
  LET run == [runs[id][k] EXCEPT !.extCalls = @ + 1, !.parsed = res]
      todo == AfterParse(res)
      payload == ExtractionUpdate(res)
  IN
  /\ run.pc = "parse"
  /\ IF todo = "halt"
     THEN /\ runs' = [runs EXCEPT ![id][k] = Finish(run, "done", "halted_pending")]
          /\ UNCHANGED store
     ELSE IF todo = "raise"
     THEN /\ runs' = [runs EXCEPT ![id][k] = Finish(run, "crashed", "raised")]
          /\ UNCHANGED store
     ELSE /\ store' = UpdateAddress(store, id, run.obj, payload)
          /\ runs' = [runs EXCEPT ![id][k] =
               [AfterUpdate(run, store', payload) EXCEPT !.pc = "refresh"]]
  /\ UNCHANGED <<nextId, checked, upload, reruns, puts, edited>>

\* Line 27: genai.get_model raises (it is outside the try block).
ExtractRaise(id, k) ==
  LET run == [runs[id][k] EXCEPT !.extCalls = @ + 1,
                                 !.parsed = Parsed("raised", None, None, None, None)]
  IN
  /\ run.pc = "parse"
  /\ runs' = [runs EXCEPT ![id][k] = Finish(run, "crashed", "raised")]
  /\ UNCHANGED <<store, nextId, checked, upload, reruns, puts, edited>>

\* Faulty variant of Refresh: the refresh is tried again until it succeeds.
RefreshSpins(id, k) ==
  LET run == runs[id][k] IN
  /\ run.pc = "refresh"
  /\ runs' = [runs EXCEPT ![id][k] =
       IF HasRow(id)
       THEN [run EXCEPT !.pc = "geocode", !.obj = store[id]]
       ELSE run]
  /\ UNCHANGED <<store, nextId, checked, upload, reruns, puts, edited>>

\* Line 168: db.refresh(db_address) raises when the row is gone.
Refresh(id, k) ==
  LET run == runs[id][k] IN
  /\ run.pc = "refresh"
  /\ runs' = [runs EXCEPT ![id][k] =
       IF HasRow(id)
       THEN [run EXCEPT !.pc = "geocode", !.obj = store[id]]
       ELSE Finish(run, "crashed", "raised")]
  /\ UNCHANGED <<store, nextId, checked, upload, reruns, puts, edited>>

\* Faulty variant of GeocodeAddress: an empty match array is not told from
\* a match.
GeocodeAddressNoEmptyCheck(address, answer) ==
  IF ~Truthy(address) THEN GeoNone("no_query")
  ELSE IF answer.kind = "error" THEN GeoNone("error")
  ELSE IF answer.kind = "empty"
  THEN [kind |-> "dict", latitude |-> None, longitude |-> None,
        suggested_address |-> None, postal_code |-> None]
  ELSE IF answer.kind = "malformed" THEN [kind |-> "raise"]
  ELSE GeoDict(answer.result)

\* Faulty variant of GeocodeAddress: an empty match array gives coordinates
\* of zero.
GeocodeAddressEmptyAsOrigin(address, answer) ==
  IF ~Truthy(address) THEN GeoNone("no_query")
  ELSE IF answer.kind = "error" THEN GeoNone("error")
  ELSE IF answer.kind = "empty"
  THEN [kind |-> "dict", latitude |-> "0.0", longitude |-> "0.0",
        suggested_address |-> None, postal_code |-> None]
  ELSE IF answer.kind = "malformed" THEN [kind |-> "raise"]
  ELSE GeoDict(answer.result)

\* geocode_address(address) given the service's answer: None without a
\* request for a falsy address, None on a request error or an empty match
\* array, the dict of the first match; float(None) raises on a match
\* without coordinates.
GeocodeAddress(address, answer) ==
  IF ~Truthy(address) THEN GeoNone("no_query")
  ELSE IF answer.kind = "error" THEN GeoNone("error")
  ELSE IF answer.kind = "empty" THEN GeoNone("empty")
  ELSE IF answer.kind = "malformed" THEN [kind |-> "raise"]
  ELSE GeoDict(answer.result)

\* Faulty variant of AddressToGeocode: the raw text is geocoded.
AddressToGeocodeRaw(run) == run.obj.original_address

\* Line 174: the string handed to the geocoder.
AddressToGeocode(run) == run.obj.normalized_address

\* Lines 174-188: geocode_address is called; a result is persisted with
\* status VERIFIED, None is only logged.
Geocode(id, k, answer) ==
  LET address == AddressToGeocode(runs[id][k])
      run == [runs[id][k] EXCEPT
                !.geoCalls = @ + 1, !.q = address,
                !.ans = IF Truthy(address) THEN answer.kind ELSE "no_query"]
      got == GeocodeAddress(address, answer)
      payload == GeoUpdate(got)
  IN
  /\ run.pc = "geocode"
  /\ IF got.kind = "raise"
     THEN /\ runs' = [runs EXCEPT ![id][k] = Finish(run, "crashed", "raised")]
          /\ UNCHANGED store
     ELSE IF got.kind = "none"
     THEN /\ runs' = [runs EXCEPT ![id][k] = Finish(run, "done", "halted_normalized")]
          /\ UNCHANGED store
     ELSE /\ store' = UpdateAddress(store, id, run.obj, payload)
          /\ runs' = [runs EXCEPT ![id][k] =
               Finish(AfterUpdate(run, store', payload), "done",
                      IF HasRow(id) THEN "verified" ELSE "gone")]
  /\ UNCHANGED <<nextId, checked, upload, reruns, puts, edited>>

\* run_processing_pipeline is called once more for an id that already had a
\* run (a caller other than the two creating handlers).
Retrigger(id) ==
  /\ reruns < MaxRerun
  /\ runs[id] # <<>>
  /\ runs' = Queue(runs, {id})
  /\ reruns' = reruns + 1
  /\ UNCHANGED <<store, nextId, checked, upload, puts, edited>>

\* ------------------------------------------------------- specifications
RunKeys == {<<id, k>> \in Ids \X (1..(MaxAddr + MaxRerun)) : k <= Len(runs[id])}

\* The application: every handler and every background task.
Next ==
  \/ \E t \in RawTexts : CreateCheck(t)
  \/ \E t \in RawTexts : CreateInsert(t)
  \/ \E id \in Ids, payload \in UpdatePayloads : UpdateEndpoint(id, payload)
  \/ \E id \in Ids : DeleteEndpoint(id)
  \/ \E file \in UploadFiles : UploadStart(file)
  \/ UploadRowCheck
  \/ UploadRowCreate
  \/ \E rk \in RunKeys : Load(rk[1], rk[2])
  \/ \E rk \in RunKeys, res \in ParseResults : Extract(rk[1], rk[2], res)
  \/ \E rk \in RunKeys : ExtractRaise(rk[1], rk[2])
  \/ \E rk \in RunKeys : Refresh(rk[1], rk[2])
  \/ \E rk \in RunKeys, answer \in GeoResponses : Geocode(rk[1], rk[2], answer)

Spec == Init /\ [][Next]_vars

\* One record created by POST /addresses/ and its run queued; from there
\* the pipeline entry point is called again for the same id, so that runs
\* on one id repeat and overlap, next to PUT requests.
InitRuns ==
  /\ store = (1 :> NewAddress("Cra 1 # 2-3"))
  /\ nextId = 2
  /\ checked = [t \in RawTexts |-> 0]
  /\ upload = UploadIdle
  /\ runs = [id \in Ids |-> IF id = 1 THEN <<NewRun(1)>> ELSE <<>>]
  /\ reruns = 0
  /\ puts = 0
  /\ edited = {}

NextRuns ==
  \/ \E id \in Ids : Retrigger(id)
  \/ \E id \in Ids, payload \in UpdatePayloads : UpdateEndpoint(id, payload)
  \/ \E rk \in RunKeys : Load(rk[1], rk[2])
  \/ \E rk \in RunKeys, res \in ParseResults : Extract(rk[1], rk[2], res)
  \/ \E rk \in RunKeys : ExtractRaise(rk[1], rk[2])
  \/ \E rk \in RunKeys : Refresh(rk[1], rk[2])
  \/ \E rk \in RunKeys, answer \in GeoResponses : Geocode(rk[1], rk[2], answer)

SpecRuns == InitRuns /\ [][NextRuns]_vars

\* A background task takes its next step: the thread pool runs every queued
\* task, and each external call returns or fails (the geocoder request has
\* a timeout).
PipelineStep ==
  \E rk \in RunKeys :
    \/ Load(rk[1], rk[2])
    \/ \E res \in ParseResults : Extract(rk[1], rk[2], res)
    \/ ExtractRaise(rk[1], rk[2])
    \/ Refresh(rk[1], rk[2])
    \/ \E answer \in GeoResponses : Geocode(rk[1], rk[2], answer)

\* The runs on one created record, started once and again, next to PUT and
\* DELETE requests for it.
NextLive ==
  \/ \E id \in Ids : Retrigger(id)
  \/ \E id \in Ids, payload \in UpdatePayloads : UpdateEndpoint(id, payload)
  \/ \E id \in Ids : DeleteEndpoint(id)
  \/ PipelineStep

\* The same with the background tasks scheduled.
SpecLive == InitRuns /\ [][NextLive]_vars /\ WF_vars(PipelineStep)

\* The two creating handlers and the records they leave, the response of
\* each upload held until the client lets go of it.
InitUpload ==
  /\ store = <<>>
  /\ nextId = 1
  /\ checked = [t \in RawTexts |-> 0]
  /\ upload = [UploadIdle EXCEPT !.keep = TRUE]
  /\ runs = [id \in Ids |-> <<>>]
  /\ reruns = 0
  /\ puts = 0
  /\ edited = {}

NextUpload ==
  \/ \E t \in RawTexts : CreateCheck(t)
  \/ \E t \in RawTexts : CreateInsert(t)
  \/ \E id \in Ids : DeleteEndpoint(id)
  \/ \E file \in UploadFiles : UploadStart(file)
  \/ UploadRowCheck
  \/ UploadRowCreate
  \/ UploadClose

SpecUpload == InitUpload /\ [][NextUpload]_vars

\* ----------------------------------------------------------------- claims
\* Every pipeline run there is, in any position.
AllRuns == {runs[rk[1]][rk[2]] : rk \in RunKeys}

\* Records no PUT /addresses/{id} was applied to.
Unedited == DOMAIN store \ edited

\* The two status changes of the lifecycle.
Forward(a, b) ==
  \/ a = PENDING /\ b = NORMALIZED
  \/ a = NORMALIZED /\ b = VERIFIED

\* C1 as stated: whatever the number of runs on an id, repeated and
\* overlapping ones included, every change of the persisted status of a
\* record that only pipeline runs write is PENDING -> NORMALIZED or
\* NORMALIZED -> VERIFIED.  (A second run on a record that is NORMALIZED or
\* VERIFIED writes NORMALIZED again.)
C1_AnyRunsForward ==
  [][\A id \in (DOMAIN store \cap DOMAIN store') \ edited' :
       store'[id].status # store[id].status
         => Forward(store[id].status, store'[id].status)]_vars

\* C1: for a record that only the pipeline writes and for whose id the
\* pipeline was started at most once, every change of the persisted status
\* is PENDING -> NORMALIZED or NORMALIZED -> VERIFIED.
C1_SingleRunForward ==
  [][\A id \in (DOMAIN store \cap DOMAIN store') \ edited' :
       Len(runs'[id]) <= 1 /\ store'[id].status # store[id].status
         => Forward(store[id].status, store'[id].status)]_vars

C1_Witness ==
  \E id \in Unedited :
    /\ Len(runs[id]) = 1
    /\ runs[id][1].end = "verified"
    /\ store[id].status = VERIFIED

\* C2 as stated: every record with status VERIFIED has a latitude and a
\* longitude.  (PUT /addresses/{id} sets the status alone.)
C2_AllVerifiedHaveCoordinates ==
  \A id \in DOMAIN store :
    store[id].status = VERIFIED
      => store[id].latitude # None /\ store[id].longitude # None

\* C2: a record with status VERIFIED that no PUT was applied to has both a
\* latitude and a longitude.
C2_VerifiedHasCoordinates ==
  \A id \in Unedited :
    store[id].status = VERIFIED
      => store[id].latitude # None /\ store[id].longitude # None

C2_Witness ==
  \E id \in Unedited :
    /\ store[id].status = VERIFIED
    /\ store[id].latitude = "6.25"
    /\ store[id].longitude = "-75.56"

\* What a run's extractor call came to: no usable result.
ExtractionFailed(r) == r.parsed.kind \in {"none", "falsy", "bad", "raised"}

\* The row holds what the extraction step of run r persisted.
ExtractionPersisted(row, r) ==
  /\ row.street_info = r.parsed.street_info
  /\ row.neighborhood = r.parsed.neighborhood
  /\ row.apartment_info = r.parsed.apartment_info
  /\ row.notes = r.parsed.notes
  /\ row.normalized_address = NormalizedStr(r.parsed)

\* C3: a run whose extraction step failed (the call raised, or returned
\* nothing usable) has ended, issued no UPDATE and did not call the
\* geocoder; its record, if no PUT was applied to it, is as it was created,
\* with status PENDING.
C3_ExtractionFailureHalts ==
  \A r \in AllRuns :
    ExtractionFailed(r) =>
      /\ r.pc \in {"done", "crashed"}
      /\ r.writes = 0
      /\ r.geoCalls = 0
      /\ r.aid \in Unedited
           => store[r.aid] = NewAddress(store[r.aid].original_address)

C3_Witness ==
  \E r \in AllRuns :
    /\ r.parsed.kind = "none"
    /\ r.extCalls = 1
    /\ r.aid \in Unedited
    /\ store[r.aid].status = PENDING

\* The geocoder gave the run nothing: request error or timeout, empty match
\* array, or no request at all.
GeocodeFailed(r) == r.ans \in {"error", "empty", "no_query"}

\* C4: a run whose geocoding failed after its extraction succeeded has ended
\* having issued the extraction UPDATE and no other; its record, if no PUT
\* was applied to it, holds the extraction's street_info, neighborhood,
\* apartment_info, notes and normalized_address, has status NORMALIZED and
\* no coordinates.
C4_GeocodeFailureKeepsExtraction ==
  \A r \in AllRuns :
    GeocodeFailed(r) =>
      /\ r.pc = "done"
      /\ r.parsed.kind = "dict"
      /\ r.writes = 1
      /\ r.aid \in Unedited
           => /\ ExtractionPersisted(store[r.aid], r)
              /\ store[r.aid].status = NORMALIZED
              /\ store[r.aid].latitude = None
              /\ store[r.aid].longitude = None

C4_Witness ==
  \E r \in AllRuns :
    /\ r.ans \in {"error", "empty"}
    /\ r.geoCalls = 1
    /\ r.aid \in Unedited
    /\ store[r.aid].status = NORMALIZED
    /\ store[r.aid].street_info = "Carrera 1 # 2-3"

\* C5 as stated: every record has status PENDING exactly when its
\* normalized_address is null.  (PUT /addresses/{id} sets the status
\* alone.)
C5_AllPendingIffNoNormalized ==
  \A id \in DOMAIN store :
    store[id].status = PENDING <=> store[id].normalized_address = None

\* C5: a record that no PUT was applied to has status PENDING exactly when
\* its normalized_address is null.
C5_PendingIffNoNormalized ==
  \A id \in Unedited :
    store[id].status = PENDING <=> store[id].normalized_address = None

C5_Witness ==
  \E a, b \in Unedited :
    /\ store[a].status = PENDING /\ store[a].normalized_address = None
    /\ store[b].status # PENDING /\ store[b].normalized_address # None

\* C6: a run that called the geocoder called the extractor before (the
\* counters only grow and no step makes both calls) and got a dict from it;
\* each is called at most once.
C6_ExtractorBeforeGeocoder ==
  \A r \in AllRuns :
    /\ r.extCalls <= 1
    /\ r.geoCalls <= 1
    /\ r.geoCalls > 0 => r.extCalls = 1 /\ ~ExtractionFailed(r)
    /\ r.pc = "geocode" => r.extCalls = 1 /\ r.geoCalls = 0

C6_Witness ==
  \E r \in AllRuns :
    r.extCalls = 1 /\ r.geoCalls = 1 /\ r.ans = "match"

\* C7: between the extraction step and the geocoder call of a run (also
\* when the run ends there) the extraction UPDATE is committed: the row, if
\* it is still there and no PUT was applied to it, has status NORMALIZED
\* and the extraction results.
C7_ExtractionCommittedBeforeGeocode ==
  \A r \in AllRuns :
    r.pc \in {"refresh", "geocode"} /\ HasRow(r.aid) =>
      /\ r.writes = 1
      /\ r.geoCalls = 0
      /\ r.aid \in Unedited
           => /\ ExtractionPersisted(store[r.aid], r)
              /\ store[r.aid].status = NORMALIZED

C7_Witness ==
  \E r \in AllRuns :
    /\ r.pc = "geocode"
    /\ r.geoCalls = 0
    /\ r.aid \in Unedited
    /\ store[r.aid].status = NORMALIZED
    /\ store[r.aid].neighborhood = "Centro"

\* The runs whose extraction results are in the store untouched.
Extracted ==
  {r \in AllRuns : r.parsed.kind = "dict" /\ r.writes >= 1 /\ r.aid \in Unedited}

\* ", "-join of the elements that are not null.
JoinNonNull(parsed) ==
  Join(SelectSeq(<<parsed.street_info, parsed.neighborhood,
                   "Medellin", "Colombia">>, LAMBDA v : v # None))

\* The normalized address by cases, an element being present when it is
\* neither null nor the empty string.
JoinPresent(parsed) ==
  LET street == parsed.street_info
      hood == parsed.neighborhood
      has(v) == v # None /\ v # ""
  IN IF has(street) /\ has(hood)
     THEN street \o ", " \o hood \o ", Medellin, Colombia"
     ELSE IF has(street) THEN street \o ", Medellin, Colombia"
     ELSE IF has(hood) THEN hood \o ", Medellin, Colombia"
     ELSE "Medellin, Colombia"

\* C8 as stated: the persisted normalized_address is the ", "-join of the
\* non-null elements of [street_info, neighborhood, "Medellin",
\* "Colombia"].  (An empty string is not null, and is dropped.)
C8_JoinOfNonNull ==
  \A r \in Extracted :
    store[r.aid].normalized_address = JoinNonNull(r.parsed)

\* C8: the persisted normalized_address is the ", "-join of the elements of
\* [street_info, neighborhood, "Medellin", "Colombia"] that are neither null
\* nor empty, in that order.
C8_JoinOfNonEmpty ==
  \A r \in Extracted :
    store[r.aid].normalized_address = JoinPresent(r.parsed)

C8_Witness ==
  \E r \in Extracted :
    /\ r.parsed.street_info = "Carrera 1 # 2-3"
    /\ r.parsed.neighborhood = None
    /\ store[r.aid].normalized_address = "Carrera 1 # 2-3, Medellin, Colombia"

\* C9: a run that found no row for its id at its start has returned (it
\* did not raise), called neither the extractor nor the geocoder and issued
\* no UPDATE.
C9_NotFoundAbortsSilently ==
  \A r \in AllRuns :
    r.loaded = "none" =>
      /\ r.pc = "done"
      /\ r.end = "notfound"
      /\ r.extCalls = 0
      /\ r.geoCalls = 0
      /\ r.writes = 0

C9_Witness ==
  \E r \in AllRuns :
    r.loaded = "none" /\ r.pc = "done" /\ ~HasRow(r.aid)

\* C10 as stated: no two records have the same original_address (among the
\* records no PUT was applied to, whose original_address is the one they
\* were created with).
C10_UniqueOriginalAddress ==
  \A a, b \in Unedited :
    a # b => store[a].original_address # store[b].original_address

\* Ids whose task an upload in progress has added and not yet queued.
UploadPending == {upload.tasks[i] : i \in 1..Len(upload.tasks)}

\* C11 as stated: every address created so far has exactly one pipeline run
\* triggered for it (once the request that created it is answered), and no
\* other id has a run.  (An upload that raises on a later row answers 500
\* and its tasks are dropped: the rows it created before have no run.)
C11_ExactlyOneRunPerAddress ==
  \A id \in Ids :
    IF id < nextId
    THEN id \notin UploadPending => Len(runs[id]) = 1
    ELSE runs[id] = <<>>

\* C12 as stated: in every record latitude is null exactly when longitude
\* is null.  (PUT /addresses/{id} sets the latitude alone.)
C12_AllCoordinatesTogether ==
  \A id \in DOMAIN store :
    store[id].latitude = None <=> store[id].longitude = None

\* C12: in a record that no PUT was applied to, latitude and longitude are
\* both null until the geocoding update of its run, which sets both and
\* marks the record VERIFIED.
C12_CoordinatesTogether ==
  \A id \in Unedited :
    /\ store[id].latitude = None <=> store[id].longitude = None
    /\ store[id].latitude # None <=> store[id].status = VERIFIED

C12_Witness ==
  \E a, b \in Unedited :
    /\ store[a].latitude = None /\ store[a].longitude = None
    /\ store[a].status = NORMALIZED
    /\ store[b].latitude # None /\ store[b].longitude # None

\* C13 as stated: no step changes the original_address of a record.  (PUT
\* /addresses/{id} with original_address in its body does.)
C13_OriginalAddressImmutable ==
  [][\A id \in DOMAIN store \cap DOMAIN store' :
       store'[id].original_address = store[id].original_address]_vars

\* C14: when the service answers a run with an empty match array,
\* geocode_address returns None (no dict, no partial data), the run ends
\* without a second UPDATE, and its record, if no PUT was applied to it,
\* has no latitude, longitude, suggested_address or postal_code.
C14_EmptyMatchLeavesCoordinatesNull ==
  \A r \in AllRuns :
    r.ans = "empty" =>
      /\ GeocodeAddress(r.q, [kind |-> "empty"]) = GeoNone("empty")
      /\ r.end = "halted_normalized"
      /\ r.writes = 1
      /\ r.aid \in Unedited
           => /\ store[r.aid].latitude = None
              /\ store[r.aid].longitude = None
              /\ store[r.aid].suggested_address = None
              /\ store[r.aid].postal_code = None

C14_Witness ==
  \E r \in AllRuns :
    /\ r.ans = "empty"
    /\ r.q = "Medellin, Colombia"
    /\ r.aid \in Unedited
    /\ store[r.aid].latitude = None
    /\ store[r.aid].longitude = None

\* The record a run leaves when it is the only writer of its record: as
\* created if its extraction gave no dict, else with the extraction results
\* and status NORMALIZED, and with the match and status VERIFIED if the
\* geocoder gave one.
AloneResults(orig, r) ==
  LET created == NewAddress(orig)
      extracted ==
        [created EXCEPT
           !.street_info = r.parsed.street_info,
           !.neighborhood = r.parsed.neighborhood,
           !.apartment_info = r.parsed.apartment_info,
           !.notes = r.parsed.notes,
           !.normalized_address = JoinPresent(r.parsed),
           !.status = NORMALIZED]
  IN IF r.parsed.kind # "dict" THEN {created}
     ELSE IF r.ans # "match" THEN {extracted}
     ELSE {[extracted EXCEPT
              !.latitude = m.lat,
              !.longitude = m.lon,
              !.suggested_address = m.display_name,
              !.postal_code = m.postcode,
              !.status = VERIFIED] : m \in GeoMatches}

\* C15: a step in which neither a run of id B moves nor a PUT is made
\* leaves record B as it is (so a run for A changes no field of B), and
\* under every interleaving a finished run leaves its record, if no PUT was
\* applied to it, as the run alone would have: a function of the record's
\* raw text and of what the extractor and the geocoder answered that run.
C15_RunsDoNotInterfere ==
  [][/\ \A id \in DOMAIN store \cap DOMAIN store' :
          runs'[id] = runs[id] /\ puts' = puts => store'[id] = store[id]
     /\ \A r \in AllRuns' :
          r.pc \in {"done", "crashed"} /\ r.aid \in Unedited'
            => store'[r.aid] \in AloneResults(store'[r.aid].original_address, r)
    ]_vars

C15_Witness ==
  \E a, b \in Unedited :
    /\ a # b
    /\ Len(runs[a]) = 1 /\ runs[a][1].end = "verified"
    /\ Len(runs[b]) = 1 /\ runs[b][1].end = "halted_normalized"
    /\ store[a].status = VERIFIED
    /\ store[b].status = NORMALIZED
    /\ store[a].street_info # store[b].street_info

\* The run has returned or raised.
Finished(r) == r.pc \in {"done", "crashed"}

\* C16: a run calls the extractor at most once and the geocoder at most
\* once; a run that has finished, by a failure or not, takes no further
\* step; and every queued run eventually finishes.
C16_NoRetryAndTermination ==
  /\ [](\A r \in AllRuns :
          /\ r.extCalls <= 1
          /\ r.geoCalls <= 1
          /\ Finished(r) <=> r.end # "running")
  /\ [][\A id \in Ids : \A k \in 1..Len(runs[id]) :
          Finished(runs[id][k]) => runs'[id][k] = runs[id][k]]_vars
  /\ \A id \in Ids : \A k \in 1..(MaxAddr + MaxRerun) :
       (k <= Len(runs[id]))
         ~> (k <= Len(runs[id]) /\ Finished(runs[id][k]))

C16_Witness ==
  \E r \in AllRuns :
    /\ Finished(r)
    /\ r.end = "halted_normalized"
    /\ r.ans = "error"
    /\ r.extCalls = 1
    /\ r.geoCalls = 1

\* C17 as stated: every geocode_address call of a run receives the
\* non-empty normalized_address that the run's extraction step persisted.
\* (The run reads the string back from the row after its commit; a PUT in
\* between replaces it.)
C17_AllCallsGetOwnNormalized ==
  \A r \in AllRuns :
    r.geoCalls > 0 => r.q # "" /\ r.q = JoinPresent(r.parsed)

\* C17: every geocode_address call of a run on a record that no PUT was
\* applied to receives the normalized_address that the run's extraction
\* step persisted, which is not empty, and a request is sent with it.
C17_CallGetsOwnNormalized ==
  \A r \in AllRuns :
    r.geoCalls > 0 /\ r.aid \notin edited =>
      /\ r.q = JoinPresent(r.parsed)
      /\ r.q \notin {"", None}
      /\ r.ans # "no_query"

C17_Witness ==
  \E r \in AllRuns :
    /\ r.geoCalls = 1
    /\ r.aid \notin edited
    /\ r.q = "Carrera 1 # 2-3, Centro, Medellin, Colombia"
    /\ r.ans = "match"

\* The columns the two updates of the pipeline set.
ExtractionFields ==
  {"street_info", "neighborhood", "apartment_info", "notes",
   "normalized_address", "status"}
GeoFields ==
  {"latitude", "longitude", "suggested_address", "postal_code", "status"}

\* C18: the step in which a run persists its extraction leaves every column
\* of its row other than street_info, neighborhood, apartment_info, notes,
\* normalized_address and status as it was, and the step in which it
\* persists its geocoding result every column other than latitude,
\* longitude, suggested_address, postal_code and status; neither touches
\* another row.
C18_PartialUpdates ==
  [][\A id \in DOMAIN store : \A k \in 1..Len(runs[id]) :
       LET before == runs[id][k]
           after == runs'[id][k]
           kept == IF before.pc = "parse" /\ after.pc = "refresh"
                   THEN Fields \ ExtractionFields
                   ELSE IF before.pc = "geocode" /\ after.end = "verified"
                   THEN Fields \ GeoFields
                   ELSE {}
       IN kept # {} =>
            /\ DOMAIN store' = DOMAIN store
            /\ \A f \in kept : store'[id][f] = store[id][f]
            /\ \A other \in DOMAIN store \ {id} : store'[other] = store[other]
    ]_vars

C18_Witness ==
  \E r \in AllRuns :
    /\ r.pc = "refresh"
    /\ r.writes = 1
    /\ r.aid \in Unedited
    /\ store[r.aid].status = NORMALIZED
    /\ store[r.aid].latitude = "6.25"
    /\ store[r.aid].postal_code = "050021"

\* C19 as stated: an upload whose file has none of the address columns is
\* answered 400.  (The 400 is raised inside the try block, whose except
\* clause turns it into a 500.)
C19_MissingColumnAnswered400 ==
  upload.pc = "answered" /\ upload.file = "no_column" => upload.code = 400

\* The extractor's answer with the four keys null.
AllNull == ParsedDict(None, None, None, None)

\* C20: a run whose extractor answered a dict with four nulls does not halt
\* at PENDING: its record, if no PUT was applied to it, is NORMALIZED (later
\* VERIFIED) with normalized_address "Medellin, Colombia", the geocoder is
\* called with that string, and the run finishes after that call unless its
\* row was deleted.  A run halts at PENDING only on a falsy parse result.
C20_AllNullDictIsSuccess ==
  \A r \in AllRuns :
    /\ r.end = "halted_pending" => r.parsed.kind \in {"none", "falsy"}
    /\ r.parsed = AllNull =>
         /\ r.end # "halted_pending"
         /\ r.aid \in Unedited =>
              /\ r.writes >= 1
              /\ store[r.aid].status \in {NORMALIZED, VERIFIED}
              /\ store[r.aid].normalized_address = "Medellin, Colombia"
              /\ Finished(r) => r.geoCalls = 1
         /\ r.geoCalls > 0 /\ r.aid \notin edited => r.q = "Medellin, Colombia"

C20_Witness ==
  \E r \in AllRuns :
    /\ r.parsed = AllNull
    /\ r.geoCalls = 1
    /\ r.q = "Medellin, Colombia"
    /\ r.ans = "match"
    /\ r.aid \in Unedited
    /\ store[r.aid].status = VERIFIED

\* Ids that were given to a record whose row is no longer in the table.
Deleted == {id \in Ids : id < nextId /\ ~HasRow(id)}

\* C21: once a record is deleted, no step brings a row with its id back,
\* and a step of a run on that id (one that loaded the row before the
\* delete included) leaves the whole table as it was and counts no write:
\* update_address finds no row and returns None.
C21_DeletedStaysDeleted ==
  [][\A id \in Deleted :
       /\ id \in Deleted'
       /\ \A k \in 1..Len(runs[id]) :
            runs'[id][k] # runs[id][k] =>
              /\ store' = store
              /\ runs'[id][k].writes = runs[id][k].writes]_vars

\* Both cases at once: one record deleted between its run's two updates,
\* the geocoding update then finding no row; another deleted after its run
\* loaded it and before the extraction update, which wrote nothing.
C21_Witness ==
  \E r, s \in AllRuns :
    /\ r.aid # s.aid
    /\ r.aid \in Deleted /\ s.aid \in Deleted
    /\ r.loaded = "row" /\ r.writes = 1 /\ r.ans = "match" /\ r.end = "gone"
    /\ s.loaded = "row" /\ s.parsed.kind = "dict" /\ s.writes = 0
    /\ s.pc \in {"refresh", "crashed"}

====
